---------------------------- MODULE Spec2Model ----------------------------
(***************************************************************************)
(* Online furniture store: Inventory, ShoppingCart, UserOrderDictionary,   *)
(* and the checkout paths of api.py (HTTP routes, one global cart) and     *)
(* main.py (CLI, one cart per e-mail).                                     *)
(*                                                                         *)
(* Money: the code keeps totals as Python floats.  The model keeps them as *)
(* exact integers in cents (150.00 is 15000); a discount is modelled only  *)
(* where its result is a whole number of cents.                            *)
(***************************************************************************)
EXTENDS Integers, Sequences, FiniteSets, TLC

(***************************************************************************)
(* Bounds of the model.                                                    *)
(***************************************************************************)
\* stock one seeding pass gives every catalog item (the code gives 10)
InitStock == 1
\* largest quantity a request carries; also the cap on a cart entry
MaxQty == 2
\* successful apply_discount calls explored
MaxDiscounts == 2
\* orders recorded before the model stops creating more
MaxOrders == 2
\* the longest list a caller grows the returned list to
MaxHeld == 3

(***************************************************************************)
(* Input domains.                                                          *)
(***************************************************************************)
\* catalog ids explored (api.py seeds five; the first two are modelled)
ItemIds == {1, 2}
\* request quantities: CartItem.quantity is any int (zero, negative too)
Quantities == (0 - 1)..MaxQty
\* discount percentages: invalid (-10, 0, 150) and valid (10, 100)
Percentages == {0 - 10, 0, 10, 100, 150}
\* usernames that requests carry
Usernames == {"Alice", "Bob"}
\* e-mails that CLI users are keyed by
Emails == {"alice@example.com", "new@example.com"}
NoUser == "none"

\* the catalog: item id -> price in cents (Modern Table 150.00, Queen Bed 300.00)
catalog == (1 :> 15000) @@ (2 :> 30000)
\* Inventory._catalog before set_catalog: None (get_catalog() then gives {})
NoCatalog == <<>>

(***************************************************************************)
(* Inventory (inventory.py).  items: item id -> quantity.                  *)
(***************************************************************************)
\* Inventory.get_catalog: a copy of the catalog, {} when none is set
get_catalog(cat) == cat

\* Inventory.get_quantity: 0 for an unknown id
get_quantity(items, item_id) ==
    IF item_id \in DOMAIN items THEN items[item_id] ELSE 0

\* a faulty update_quantity that refuses to go below zero
update_quantity_floor(items, item_id, quantity) ==
    IF item_id \in DOMAIN items
    THEN [items EXCEPT ![item_id] = IF quantity < 0 THEN 0 ELSE quantity]
    ELSE items

\* a faulty update_quantity that writes nothing
update_quantity_lost(items, item_id, quantity) == items

\* Inventory.update_quantity: absolute overwrite of an existing entry
update_quantity(items, item_id, quantity) ==
    IF item_id \in DOMAIN items
    THEN [items EXCEPT ![item_id] = quantity]
    ELSE items

\* a faulty remove_item that zeroes the entry and keeps the key
remove_item_zeroing(items, item_id) ==
    IF item_id \in DOMAIN items
    THEN [items EXCEPT ![item_id] = 0]
    ELSE items

\* Inventory.remove_item: delete the entry
remove_item(items, item_id) ==
    [i \in DOMAIN items \ {item_id} |-> items[i]]

\* Inventory.add_item: add to an existing entry or create it
add_item(items, item_id, quantity) ==
    IF item_id \in DOMAIN items
    THEN [items EXCEPT ![item_id] = @ + quantity]
    ELSE items @@ (item_id :> quantity)

(***************************************************************************)
(* ShoppingCart (shopping_cart.py).  A cart is                             *)
(*   [items |-> sequence of [id, qty] in dict insertion order,             *)
(*    total |-> _total_price in cents].                                    *)
(***************************************************************************)
\* ShoppingCart.__init__
NewCart == [items |-> <<>>, total |-> 0]

\* a faulty emptiness test that lets every cart through
cart_is_empty_never(c) == FALSE

\* not cart._cart_items
cart_is_empty(c) == c.items = <<>>

\* item_id in self._cart_items
InCart(c, item_id) == \E k \in 1..Len(c.items) : c.items[k].id = item_id

\* position of item_id in the dict
CartPos(c, item_id) == CHOOSE k \in 1..Len(c.items) : c.items[k].id = item_id

\* self._cart_items.get(item_id, 0)
CartQty(c, item_id) ==
    IF InCart(c, item_id) THEN c.items[CartPos(c, item_id)].qty ELSE 0

\* self._cart_items[item_id] = q: in place for a present key, appended otherwise
CartSet(entries, item_id, q) ==
    IF \E k \in 1..Len(entries) : entries[k].id = item_id
    THEN [k \in 1..Len(entries) |->
            IF entries[k].id = item_id THEN [id |-> item_id, qty |-> q]
            ELSE entries[k]]
    ELSE Append(entries, [id |-> item_id, qty |-> q])

\* del self._cart_items[item_id]
CartDel(entries, item_id) ==
    SelectSeq(entries, LAMBDA e : e.id # item_id)

\* sum over the entries of catalog price * quantity (entries without a
\* catalog price count 0)
RECURSIVE SumEntries(_, _)
SumEntries(entries, cat) ==
    IF entries = <<>> THEN 0
    ELSE (IF Head(entries).id \in DOMAIN cat
          THEN cat[Head(entries).id] * Head(entries).qty ELSE 0)
         + SumEntries(Tail(entries), cat)

\* a faulty add_furniture that, short of stock, still puts what is left of
\* the item into the cart
add_furniture_clamped(c, items, cat, item_id, quantity) ==
    LET available == get_quantity(items, item_id)
        entries == CartSet(c.items, item_id, CartQty(c, item_id) + quantity)
    IN  IF item_id \notin DOMAIN items THEN [cart |-> c, out |-> "not_found"]
        ELSE IF available < quantity + CartQty(c, item_id)
        THEN [cart |-> [c EXCEPT !.items = CartSet(c.items, item_id, available)],
              out |-> "no_stock"]
        ELSE IF item_id \notin DOMAIN get_catalog(cat)
        THEN [cart |-> [c EXCEPT !.items = entries], out |-> "KeyError"]
        ELSE [cart |-> [items |-> entries,
                        total |-> c.total + get_catalog(cat)[item_id] * quantity],
              out |-> "added"]

\* a faulty add_furniture whose stock check forgets the quantity that is
\* already in the cart
add_furniture_unchecked(c, items, cat, item_id, quantity) ==
    LET available == get_quantity(items, item_id)
        entries == CartSet(c.items, item_id, CartQty(c, item_id) + quantity)
    IN  IF item_id \notin DOMAIN items THEN [cart |-> c, out |-> "not_found"]
        ELSE IF available < quantity THEN [cart |-> c, out |-> "no_stock"]
        ELSE IF item_id \notin DOMAIN get_catalog(cat)
        THEN [cart |-> [c EXCEPT !.items = entries], out |-> "KeyError"]
        ELSE [cart |-> [items |-> entries,
                        total |-> c.total + get_catalog(cat)[item_id] * quantity],
              out |-> "added"]

\* ShoppingCart.add_furniture.  Result: the cart after the call and how the
\* call ended: "not_found", "no_stock" (both print and return), "KeyError"
\* (get_item_by_id raised after _cart_items was written), "added".
add_furniture(c, items, cat, item_id, quantity) ==
    LET available == get_quantity(items, item_id)
        entries == CartSet(c.items, item_id, CartQty(c, item_id) + quantity)
    IN  IF item_id \notin DOMAIN items
        THEN [cart |-> c, out |-> "not_found"]
        ELSE IF InCart(c, item_id) /\ available < quantity + CartQty(c, item_id)
        THEN [cart |-> c, out |-> "no_stock"]
        ELSE IF ~InCart(c, item_id) /\ available < quantity
        THEN [cart |-> c, out |-> "no_stock"]
        ELSE IF item_id \notin DOMAIN get_catalog(cat)
        THEN [cart |-> [c EXCEPT !.items = entries], out |-> "KeyError"]
        ELSE [cart |-> [items |-> entries,
                        total |-> c.total + get_catalog(cat)[item_id] * quantity],
              out |-> "added"]

\* ShoppingCart.remove_furniture.  "not_in_cart" and "not_enough" print and
\* return; "KeyError" is get_item_by_id raising before anything is written.
remove_furniture(c, cat, item_id, quantity) ==
    LET left == CartQty(c, item_id) - quantity
    IN  IF ~InCart(c, item_id)
        THEN [cart |-> c, out |-> "not_in_cart"]
        ELSE IF CartQty(c, item_id) < quantity
        THEN [cart |-> c, out |-> "not_enough"]
        ELSE IF item_id \notin DOMAIN get_catalog(cat)
        THEN [cart |-> c, out |-> "KeyError"]
        ELSE [cart |-> [items |-> IF left = 0 THEN CartDel(c.items, item_id)
                                  ELSE CartSet(c.items, item_id, left),
                        total |-> c.total - get_catalog(cat)[item_id] * quantity],
              out |-> "removed"]

\* a faulty apply_discount that takes the percentage off as a flat amount
apply_discount_flat(c, discount_percentage) ==
    IF discount_percentage <= 0 \/ discount_percentage > 100
    THEN [cart |-> c, out |-> "invalid"]
    ELSE [cart |-> [c EXCEPT !.total = @ - discount_percentage],
          out |-> "discounted"]

\* ShoppingCart.apply_discount.  Both branches return None: "invalid" only
\* prints "Invalid discount percentage.".
apply_discount(c, discount_percentage) ==
    IF discount_percentage <= 0 \/ discount_percentage > 100
    THEN [cart |-> c, out |-> "invalid"]
    ELSE [cart |-> [c EXCEPT !.total =
                       c.total - (discount_percentage * c.total) \div 100],
          out |-> "discounted"]

\* the discount is a whole number of cents
DiscountExact(c, discount_percentage) ==
    (discount_percentage * c.total) % 100 = 0


(***************************************************************************)
(* Orders and the UserOrderDictionary (order.py, user_order_dic.py,        *)
(* user.py).  A user object is named by the key it is stored under         *)
(* (user_db: the username; user_accounts: the e-mail).                     *)
(***************************************************************************)
\* a faulty Order that drops the total it is given
Order_no_total(user, username, order_items, total_price, status) ==
    [user |-> user, username |-> username, items |-> order_items,
     total_price |-> 0, status |-> status]

\* Order.__init__: user is the User object (its key), username its
\* username attribute
Order(user, username, order_items, total_price, status) ==
    [user |-> user, username |-> username, items |-> order_items,
     total_price |-> total_price, status |-> status]

\* User.add_order: append to the user's _order_hist
add_order(hist, order) ==
    [hist EXCEPT ![order.user] = Append(@, order)]

\* a faulty update that stores an order only once
update_once(uo, order) ==
    IF order.username \notin DOMAIN uo
    THEN uo @@ (order.username :> <<order>>)
    ELSE IF \E k \in 1..Len(uo[order.username]) : uo[order.username][k] = order
    THEN uo
    ELSE [uo EXCEPT ![order.username] = Append(@, order)]

\* UserOrderDictionary.update, the dictionary part: append under
\* order.user.username, creating the list when the key is new
update(uo, order) ==
    IF order.username \in DOMAIN uo
    THEN [uo EXCEPT ![order.username] = Append(@, order)]
    ELSE uo @@ (order.username :> <<order>>)

\* a faulty get_orders_for_user that hands out the stored list itself
get_orders_for_user_live(uo, username) ==
    [live |-> username \in DOMAIN uo, key |-> username,
     list |-> IF username \in DOMAIN uo THEN uo[username] ELSE <<>>]

\* UserOrderDictionary.get_orders_for_user: list(...) of the stored list, a
\* new list object.  live = TRUE would be the stored list itself.
get_orders_for_user(uo, username) ==
    [live |-> FALSE, key |-> username,
     list |-> IF username \in DOMAIN uo THEN uo[username] ELSE <<>>]

\* UserOrderDictionary.clear_user_orders: the user's key set to a new empty
\* list; the user's own _order_hist is not touched
clear_user_orders(uo, username) ==
    (username :> <<>>) @@ uo

(***************************************************************************)
(* Checkout loops.                                                         *)
(***************************************************************************)
\* a faulty checkout loop that deducts without looking at the stock
RECURSIVE checkout_loop_unchecked(_, _, _)
checkout_loop_unchecked(entries, items, cat) ==
    IF entries = <<>> THEN [items |-> items, out |-> "ok"]
    ELSE LET e == Head(entries)
         IN  IF e.id \notin DOMAIN cat
             THEN [items |-> items, out |-> "KeyError"]
             ELSE checkout_loop_unchecked(Tail(entries),
                     update_quantity(items, e.id,
                                     get_quantity(items, e.id) - e.qty),
                     cat)

\* api.py checkout, the for loop: per entry, in dict order, look the item up
\* in the catalog, check the stock, deduct.  A failing entry raises and
\* leaves the deductions made for the entries before it.
RECURSIVE checkout_loop(_, _, _)
checkout_loop(entries, items, cat) ==
    IF entries = <<>> THEN [items |-> items, out |-> "ok"]
    ELSE LET e == Head(entries)
             available_qty == get_quantity(items, e.id)
         IN  IF e.id \notin DOMAIN cat
             THEN [items |-> items, out |-> "KeyError"]
             ELSE IF available_qty < e.qty
             THEN [items |-> items, out |-> "no_stock"]
             ELSE checkout_loop(Tail(entries),
                                update_quantity(items, e.id, available_qty - e.qty),
                                cat)

\* a faulty first loop that lets every cart through
cli_validate_always(entries, items) == TRUE

\* main.py checkout_cli, first loop: every entry has enough stock
cli_validate(entries, items) ==
    \A k \in 1..Len(entries) : ~(get_quantity(items, entries[k].id) < entries[k].qty)

\* main.py checkout_cli, second loop: deduct every entry
RECURSIVE cli_deduct(_, _)
cli_deduct(entries, items) ==
    IF entries = <<>> THEN items
    ELSE cli_deduct(Tail(entries),
                    update_quantity(items, Head(entries).id,
                        get_quantity(items, Head(entries).id) - Head(entries).qty))

\* list(cart._cart_items.keys())
CartKeys(entries) == [k \in 1..Len(entries) |-> entries[k].id]

\* api.py create_order, the for loop over the request's lines: catalog
\* check, stock check, price added, stock deducted, line by line
RECURSIVE create_order_loop(_, _, _, _)
create_order_loop(lines, items, cat, total_price) ==
    IF lines = <<>> THEN [items |-> items, total |-> total_price, out |-> "ok"]
    ELSE LET l == Head(lines)
             available_qty == get_quantity(items, l.id)
         IN  IF l.id \notin DOMAIN cat
             THEN [items |-> items, total |-> total_price, out |-> "not_found"]
             ELSE IF available_qty < l.qty
             THEN [items |-> items, total |-> total_price, out |-> "no_stock"]
             ELSE create_order_loop(Tail(lines),
                                    update_quantity(items, l.id, available_qty - l.qty),
                                    cat, total_price + cat[l.id] * l.qty)

(***************************************************************************)
(* The User object (user.py).  The password hash is modelled by the        *)
(* password it was made from: verify_password is equality.                 *)
(***************************************************************************)
\* User.__init__, as initialize_users builds the pre-generated Alice
NewUser ==
    [username |-> "Alice", email |-> "alice@example.com",
     password |-> "Alice123", full_name |-> "Alice Wonderland",
     address |-> "456 Elm St", phone_number |-> "123456789",
     is_logged |-> FALSE]

\* no mapping fetched yet
NoView == [fetched |-> FALSE, live |-> FALSE, map |-> <<>>]

(***************************************************************************)
(* State.                                                                  *)
(***************************************************************************)
VARIABLES
    mode,            \* "api": api.py; "main_api": main.py served as API;
                     \* "cli": main.py main(); "lib": the classes called directly
    inventory,       \* Inventory._items: item id -> quantity
    inv_catalog,     \* Inventory._catalog: item id -> price, <<>> when unset
    shopping_cart,   \* the global ShoppingCart of the API
    user_db,         \* API: username -> User
    orders,          \* API: the orders list
    user_orders,     \* UserOrderDictionary._user_orders: username -> orders
    order_hist,      \* User._order_hist of every User object: key -> orders
    user_accounts,   \* CLI: e-mail -> User
    shopping_carts,  \* CLI: e-mail -> ShoppingCart
    session,         \* CLI: the user inside user_interface and its local cart
    held,            \* a list a caller got from get_orders_for_user
    catalog_view,    \* a mapping a caller got from get_catalog
    user_fields,     \* the fields of one User object, called directly
    checking,        \* CLI run by several threads: the e-mails whose
                     \* checkout_cli is between its two loops
    discounts,       \* successful apply_discount calls so far
    last             \* the last call: what was called, with what, how it ended

vars == <<mode, inventory, inv_catalog, shopping_cart, user_db, orders,
          user_orders, order_hist, user_accounts, shopping_carts, session,
          held, catalog_view, user_fields, checking, discounts, last>>

\* the variables only the CLI writes
cli_vars == <<user_accounts, shopping_carts, session, checking>>
\* the variables only the API writes
api_vars == <<shopping_cart, user_db, orders, discounts>>

\* a: the username or the percentage the call carried (0 otherwise);
\* out: how the called code ended (what it printed or raised); resp: what
\* the caller gets back (the HTTP status of a route, "None" from a method
\* that returns normally)
Call(op, a, out, resp) ==
    [op |-> op, a |-> a, out |-> out, resp |-> resp]

\* orders recorded so far, over all users
RECURSIVE SumLen(_, _)
SumLen(f, keys) ==
    IF keys = {} THEN 0
    ELSE LET k == CHOOSE x \in keys : TRUE
         IN  Len(f[k]) + SumLen(f, keys \ {k})

NumOrders == SumLen(order_hist, DOMAIN order_hist)

\* every entry's quantity stays in the modelled range
InRange(c) == \A k \in 1..Len(c.items) :
                  c.items[k].qty >= 0 - 1 /\ c.items[k].qty <= MaxQty

\* the state every entry point starts from: empty stores
InitCommon ==
    /\ shopping_cart = NewCart
    /\ user_db = <<>>
    /\ orders = <<>>
    /\ user_orders = <<>>
    /\ order_hist = <<>>
    /\ user_accounts = <<>>
    /\ shopping_carts = <<>>
    /\ session = [user |-> NoUser, detached |-> FALSE, cart |-> NewCart]
    /\ held = [live |-> FALSE, key |-> NoUser, list |-> <<>>]
    /\ catalog_view = NoView
    /\ user_fields = NewUser
    /\ checking = {}
    /\ discounts = 0
    /\ last = Call("init", 0, "ok", "None")

\* api.py at import: every catalog item stocked, the catalog set
InitApi ==
    /\ mode = "api"
    /\ inventory = [i \in ItemIds |-> InitStock]
    /\ inv_catalog = catalog
    /\ InitCommon

\* main.py imported by uvicorn ("python main.py api"): every catalog item
\* stocked, set_catalog never called
InitMainApi ==
    /\ mode = "main_api"
    /\ inventory = [i \in ItemIds |-> InitStock]
    /\ inv_catalog = NoCatalog
    /\ InitCommon

(***************************************************************************)
(* API routes (api.py).  RouteCatalog is the catalog a route looks items   *)
(* up in: inventory.get_catalog() in api.py, the module's catalog dict in  *)
(* main.py.                                                                *)
(***************************************************************************)
RouteCatalog == IF mode = "api" THEN get_catalog(inv_catalog) ELSE catalog

\* a faulty POST /users/register that stores the new User over the one
\* already registered under the username
register_user_overwriting(username) ==
    /\ mode \in {"api", "main_api"}
    /\ user_db' = (username :> [username |-> username]) @@ user_db
    /\ order_hist' = (username :> <<>>) @@ order_hist
    /\ last' = Call("register_user", username,
                    IF username \in DOMAIN user_db THEN "exists" ELSE "ok",
                    IF username \in DOMAIN user_db THEN "400" ELSE "200")
    /\ UNCHANGED <<mode, inventory, inv_catalog, shopping_cart, orders,
                   user_orders, held, catalog_view, user_fields, discounts>>
    /\ UNCHANGED cli_vars

\* POST /users/register
register_user(username) ==
    /\ mode \in {"api", "main_api"}
    /\ IF username \in DOMAIN user_db
       THEN /\ last' = Call("register_user", username, "exists", "400")
            /\ UNCHANGED <<user_db, order_hist>>
       ELSE /\ user_db' = user_db @@ (username :> [username |-> username])
            /\ order_hist' = order_hist @@ (username :> <<>>)
            /\ last' = Call("register_user", username, "ok", "200")
    /\ UNCHANGED <<mode, inventory, inv_catalog, shopping_cart, orders,
                   user_orders, held, catalog_view, user_fields, discounts>>
    /\ UNCHANGED cli_vars

\* a faulty POST /cart/items that takes the units out of the stock as it
\* puts them into the cart
add_item_to_cart_reserving(item_id, quantity) ==
    /\ mode \in {"api", "main_api"}
    /\ item_id \in DOMAIN RouteCatalog
    /\ LET r == add_furniture(shopping_cart, inventory, inv_catalog,
                              item_id, quantity)
       IN  /\ InRange(r.cart)
           /\ shopping_cart' = r.cart
           /\ inventory' = IF r.out = "added"
                           THEN update_quantity(inventory, item_id,
                                    get_quantity(inventory, item_id) - quantity)
                           ELSE inventory
           /\ last' = Call("add_item_to_cart", 0, r.out,
                           IF r.out = "KeyError" THEN "500" ELSE "200")
    /\ UNCHANGED <<mode, inv_catalog, user_db, orders, user_orders,
                   order_hist, held, catalog_view, user_fields, discounts>>
    /\ UNCHANGED cli_vars

\* POST /cart/items
add_item_to_cart(item_id, quantity) ==
    /\ mode \in {"api", "main_api"}
    /\ IF item_id \notin DOMAIN RouteCatalog
       THEN /\ last' = Call("add_item_to_cart", 0, "no_item", "404")
            /\ UNCHANGED shopping_cart
       ELSE LET r == add_furniture(shopping_cart, inventory, inv_catalog,
                                   item_id, quantity)
            IN  /\ InRange(r.cart)
                /\ shopping_cart' = r.cart
                /\ last' = Call("add_item_to_cart", 0, r.out,
                                IF r.out = "KeyError" THEN "500" ELSE "200")
    /\ UNCHANGED <<mode, inventory, inv_catalog, user_db, orders, user_orders,
                   order_hist, held, catalog_view, user_fields, discounts>>
    /\ UNCHANGED cli_vars

\* DELETE /cart/items/{item_id}
remove_item_from_cart(item_id, quantity) ==
    /\ mode \in {"api", "main_api"}
    /\ IF item_id \notin DOMAIN RouteCatalog
       THEN /\ last' = Call("remove_item_from_cart", 0,
                            "no_item", "404")
            /\ UNCHANGED shopping_cart
       ELSE LET r == remove_furniture(shopping_cart, inv_catalog, item_id, quantity)
            IN  /\ InRange(r.cart)
                /\ shopping_cart' = r.cart
                /\ last' = Call("remove_item_from_cart", 0, r.out,
                                IF r.out = "KeyError" THEN "500" ELSE "200")
    /\ UNCHANGED <<mode, inventory, inv_catalog, user_db, orders, user_orders,
                   order_hist, held, catalog_view, user_fields, discounts>>
    /\ UNCHANGED cli_vars

\* POST /cart/apply_discount: the response is 200 "Discount applied."
\* whatever apply_discount did.  budget caps the successful discounts.
apply_cart_discount(discount_percentage, budget) ==
    /\ mode \in {"api", "main_api"}
    /\ LET r == apply_discount(shopping_cart, discount_percentage)
       IN  /\ r.out = "discounted" =>
                 discounts < budget
                 /\ DiscountExact(shopping_cart, discount_percentage)
           /\ shopping_cart' = r.cart
           /\ discounts' = IF r.out = "discounted" THEN discounts + 1 ELSE discounts
           /\ last' = Call("apply_cart_discount", discount_percentage, r.out, "200")
    /\ UNCHANGED <<mode, inventory, inv_catalog, user_db, orders, user_orders,
                   order_hist, held, catalog_view, user_fields>>
    /\ UNCHANGED cli_vars

\* PUT /inventory/{item_id}
update_inventory_item(item_id, quantity) ==
    /\ mode \in {"api", "main_api"}
    /\ IF item_id \notin DOMAIN inventory
       THEN /\ last' = Call("update_inventory_item", 0,
                            "no_item", "404")
            /\ UNCHANGED inventory
       ELSE /\ inventory' = update_quantity(inventory, item_id, quantity)
            /\ last' = Call("update_inventory_item", 0, "ok", "200")
    /\ UNCHANGED <<mode, inv_catalog, shopping_cart, user_db, orders,
                   user_orders, order_hist,
                   held, catalog_view, user_fields, discounts>>
    /\ UNCHANGED cli_vars

\* DELETE /inventory/{item_id}
remove_inventory_item(item_id) ==
    /\ mode \in {"api", "main_api"}
    /\ IF item_id \notin DOMAIN inventory
       THEN /\ last' = Call("remove_inventory_item", 0, "no_item", "404")
            /\ UNCHANGED inventory
       ELSE /\ inventory' = remove_item(inventory, item_id)
            /\ last' = Call("remove_inventory_item", 0, "ok", "200")
    /\ UNCHANGED <<mode, inv_catalog, shopping_cart, user_db, orders,
                   user_orders, order_hist,
                   held, catalog_view, user_fields, discounts>>
    /\ UNCHANGED cli_vars

\* POST /orders: an order straight from the request's lines
create_order(username, lines) ==
    /\ mode \in {"api", "main_api"}
    /\ IF username \notin DOMAIN user_db
       THEN /\ last' = Call("create_order", username, "no_user", "404")
            /\ UNCHANGED <<inventory, orders, user_orders, order_hist>>
       ELSE LET r == create_order_loop(lines, inventory, RouteCatalog, 0)
                new_order == Order(username, user_db[username].username,
                                   lines, r.total, "pending")
            IN  /\ inventory' = r.items
                /\ IF r.out = "ok"
                   THEN /\ Len(orders) < MaxOrders
                        /\ orders' = Append(orders, new_order)
                        /\ user_orders' = update(user_orders, new_order)
                        /\ order_hist' = add_order(order_hist, new_order)
                        /\ last' = Call("create_order", username, "ok", "200")
                   ELSE /\ UNCHANGED <<orders, user_orders, order_hist>>
                        /\ last' = Call("create_order", username, r.out,
                                        IF r.out = "not_found" THEN "404" ELSE "400")
    /\ UNCHANGED <<mode, inv_catalog, shopping_cart, user_db,
                   held, catalog_view, user_fields, discounts>>
    /\ UNCHANGED cli_vars

\* a faulty POST /checkout that clears the cart before it looks at the stock
checkout_clearing(username) ==
    /\ mode \in {"api", "main_api"}
    /\ IF username \notin DOMAIN user_db
       THEN /\ last' = Call("checkout", username, "no_user", "404")
            /\ UNCHANGED <<inventory, shopping_cart, orders, user_orders, order_hist>>
       ELSE IF cart_is_empty(shopping_cart)
       THEN /\ last' = Call("checkout", username, "empty_cart", "400")
            /\ UNCHANGED <<inventory, shopping_cart, orders, user_orders, order_hist>>
       ELSE LET r == checkout_loop(shopping_cart.items, inventory, RouteCatalog)
                new_order == Order(username, user_db[username].username,
                                   shopping_cart.items, shopping_cart.total,
                                   "pending")
            IN  /\ inventory' = r.items
                /\ shopping_cart' = NewCart
                /\ IF r.out = "ok"
                   THEN /\ Len(orders) < MaxOrders
                        /\ orders' = Append(orders, new_order)
                        /\ user_orders' = update(user_orders, new_order)
                        /\ order_hist' = add_order(order_hist, new_order)
                        /\ last' = Call("checkout", username, "ok", "200")
                   ELSE /\ UNCHANGED <<orders, user_orders, order_hist>>
                        /\ last' = Call("checkout", username, r.out,
                                        IF r.out = "KeyError" THEN "500" ELSE "400")
    /\ UNCHANGED <<mode, inv_catalog, user_db,
                   held, catalog_view, user_fields, discounts>>
    /\ UNCHANGED cli_vars

\* POST /checkout: an order from the global cart
checkout(username) ==
    /\ mode \in {"api", "main_api"}
    /\ IF username \notin DOMAIN user_db
       THEN /\ last' = Call("checkout", username, "no_user", "404")
            /\ UNCHANGED <<inventory, shopping_cart, orders, user_orders, order_hist>>
       ELSE IF cart_is_empty(shopping_cart)
       THEN /\ last' = Call("checkout", username, "empty_cart", "400")
            /\ UNCHANGED <<inventory, shopping_cart, orders, user_orders, order_hist>>
       ELSE LET r == checkout_loop(shopping_cart.items, inventory, RouteCatalog)
                new_order == Order(username, user_db[username].username,
                                   shopping_cart.items, shopping_cart.total,
                                   "pending")
            IN  /\ inventory' = r.items
                /\ IF r.out = "ok"
                   THEN /\ Len(orders) < MaxOrders
                        /\ orders' = Append(orders, new_order)
                        /\ user_orders' = update(user_orders, new_order)
                        /\ order_hist' = add_order(order_hist, new_order)
                        /\ shopping_cart' = NewCart
                        /\ last' = Call("checkout", username, "ok", "200")
                   ELSE /\ UNCHANGED <<shopping_cart, orders, user_orders, order_hist>>
                        /\ last' = Call("checkout", username, r.out,
                                        IF r.out = "KeyError" THEN "500" ELSE "400")
    /\ UNCHANGED <<mode, inv_catalog, user_db,
                   held, catalog_view, user_fields, discounts>>
    /\ UNCHANGED cli_vars

\* the lines a create_order request carries: one (item, quantity) line
OrderLines == {<<l>> : l \in [id : ItemIds, qty : 1..MaxQty]}

\* api.py: registration, the global cart, orders and checkout
NextApi ==
    \/ \E u \in Usernames : register_user(u)
    \/ \E i \in ItemIds, q \in 1..MaxQty : add_item_to_cart(i, q)
    \/ \E p \in {10, 150} : apply_cart_discount(p, 1)
    \/ \E u \in Usernames, l \in OrderLines : create_order(u, l)
    \/ \E u \in Usernames : checkout(u)

SpecApi == InitApi /\ [][NextApi]_vars

(***************************************************************************)
(* CLI (main.py main()).  One user at a time is inside user_interface;     *)
(* its local variable cart is read from shopping_carts once, on entry.     *)
(***************************************************************************)
\* initialize_users: the pre-generated users (the code makes four; the
\* first, Alice, is modelled)
PreGenerated == {"alice@example.com"}

\* main.py at import seeds the inventory; main() calls initialize_inventory,
\* which seeds it again and sets the catalog, then initialize_users
InitCli ==
    /\ mode = "cli"
    /\ inventory = [i \in ItemIds |-> add_item(add_item(<<>>, i, InitStock),
                                               i, InitStock)[i]]
    /\ inv_catalog = catalog
    /\ shopping_cart = NewCart
    /\ user_db = <<>>
    /\ orders = <<>>
    /\ user_orders = <<>>
    /\ user_accounts = [e \in PreGenerated |-> [username |-> "Alice"]]
    /\ shopping_carts = [e \in PreGenerated |-> NewCart]
    /\ order_hist = [e \in PreGenerated |-> <<>>]
    /\ session = [user |-> NoUser, detached |-> FALSE, cart |-> NewCart]
    /\ held = [live |-> FALSE, key |-> NoUser, list |-> <<>>]
    /\ catalog_view = NoView
    /\ user_fields = NewUser
    /\ checking = {}
    /\ discounts = 0
    /\ last = Call("init", 0, "ok", "None")

\* the cart object user_interface's local variable names: the one in
\* shopping_carts, or, once checkout_cli has put a new cart there, the old one
SessionCart ==
    IF session.detached THEN session.cart ELSE shopping_carts[session.user]

\* a write through user_interface's local variable cart
WriteSessionCart(c) ==
    IF session.detached
    THEN /\ session' = [session EXCEPT !.cart = c]
         /\ UNCHANGED shopping_carts
    ELSE /\ shopping_carts' = [shopping_carts EXCEPT ![session.user] = c]
         /\ UNCHANGED session

\* log_in, then user_interface(user): cart = shopping_carts[user.email]
log_in(email) ==
    /\ mode = "cli"
    /\ session.user = NoUser
    /\ IF email \notin DOMAIN user_accounts
       THEN /\ last' = Call("log_in", email, "no_user", "None")
            /\ UNCHANGED session
       ELSE /\ session' = [user |-> email, detached |-> FALSE, cart |-> NewCart]
            /\ last' = Call("log_in", email, "ok", "user")
    /\ UNCHANGED <<mode, inventory, inv_catalog, user_orders, order_hist,
                   user_accounts, shopping_carts,
                   held, catalog_view, user_fields>>
    /\ UNCHANGED api_vars
    /\ UNCHANGED checking

\* sign_up, then user_interface(user) for the new user
sign_up(email, username) ==
    /\ mode = "cli"
    /\ session.user = NoUser
    /\ IF email \in DOMAIN user_accounts
       THEN /\ last' = Call("sign_up", email, "exists", "None")
            /\ UNCHANGED <<user_accounts, shopping_carts, order_hist, session>>
       ELSE /\ user_accounts' = user_accounts @@ (email :> [username |-> username])
            /\ shopping_carts' = shopping_carts @@ (email :> NewCart)
            /\ order_hist' = order_hist @@ (email :> <<>>)
            /\ session' = [user |-> email, detached |-> FALSE, cart |-> NewCart]
            /\ last' = Call("sign_up", email, "ok", "user")
    /\ UNCHANGED <<mode, inventory, inv_catalog, user_orders,
                   held, catalog_view, user_fields>>
    /\ UNCHANGED api_vars
    /\ UNCHANGED checking

\* user_interface, choice 6
log_out ==
    /\ mode = "cli"
    /\ session.user # NoUser
    /\ session' = [user |-> NoUser, detached |-> FALSE, cart |-> NewCart]
    /\ last' = Call("log_out", 0, "ok", "None")
    /\ UNCHANGED <<mode, inventory, inv_catalog, user_orders, order_hist,
                   user_accounts, shopping_carts,
                   held, catalog_view, user_fields>>
    /\ UNCHANGED api_vars
    /\ UNCHANGED checking

\* user_interface, choice 1
cli_add(item_id, quantity) ==
    /\ mode = "cli"
    /\ session.user # NoUser
    /\ IF item_id \notin DOMAIN catalog
       THEN /\ last' = Call("cli_add", session.user, "no_item", "None")
            /\ UNCHANGED <<session, shopping_carts>>
       ELSE LET r == add_furniture(SessionCart, inventory, inv_catalog,
                                   item_id, quantity)
            IN  /\ InRange(r.cart)
                /\ WriteSessionCart(r.cart)
                /\ last' = Call("cli_add", session.user, r.out, "None")
    /\ UNCHANGED <<mode, inventory, inv_catalog, user_orders, order_hist,
                   user_accounts, held, catalog_view, user_fields>>
    /\ UNCHANGED api_vars
    /\ UNCHANGED checking

\* user_interface, choice 2
cli_remove(item_id, quantity) ==
    /\ mode = "cli"
    /\ session.user # NoUser
    /\ LET r == remove_furniture(SessionCart, inv_catalog, item_id, quantity)
       IN  /\ InRange(r.cart)
           /\ WriteSessionCart(r.cart)
           /\ last' = Call("cli_remove", session.user, r.out, "None")
    /\ UNCHANGED <<mode, inventory, inv_catalog, user_orders, order_hist,
                   user_accounts, held, catalog_view, user_fields>>
    /\ UNCHANGED api_vars
    /\ UNCHANGED checking

\* user_interface, choice 4: cart.show_total_price() prints the total
show_total_price ==
    /\ mode = "cli"
    /\ session.user # NoUser
    /\ last' = Call("show_total_price", session.user, "printed", "None")
    /\ UNCHANGED <<mode, inventory, inv_catalog, user_orders, order_hist,
                   user_accounts, shopping_carts, session,
                   held, catalog_view, user_fields>>
    /\ UNCHANGED api_vars
    /\ UNCHANGED checking

\* user_interface, choice 5: checkout_cli(user, cart), run as one step
checkout_cli ==
    /\ mode = "cli"
    /\ session.user # NoUser
    /\ LET cart == SessionCart
           order == Order(session.user, user_accounts[session.user].username,
                          CartKeys(cart.items), cart.total, "Pending")
       IN  IF cart_is_empty(cart)
           THEN /\ last' = Call("checkout_cli", session.user, "empty_cart", "None")
                /\ UNCHANGED <<inventory, user_orders, order_hist,
                               shopping_carts, session>>
           ELSE IF ~cli_validate(cart.items, inventory)
           THEN /\ last' = Call("checkout_cli", session.user, "no_stock", "None")
                /\ UNCHANGED <<inventory, user_orders, order_hist,
                               shopping_carts, session>>
           ELSE /\ NumOrders < MaxOrders
                /\ inventory' = cli_deduct(cart.items, inventory)
                /\ user_orders' = update(user_orders, order)
                /\ order_hist' = add_order(order_hist, order)
                /\ shopping_carts' = [shopping_carts EXCEPT ![session.user] = NewCart]
                /\ session' = [session EXCEPT !.detached = TRUE, !.cart = cart]
                /\ last' = Call("checkout_cli", session.user, "ok", "None")
    /\ UNCHANGED <<mode, inv_catalog, user_accounts,
                   held, catalog_view, user_fields>>
    /\ UNCHANGED api_vars
    /\ UNCHANGED checking

NextCli ==
    \/ \E e \in Emails : log_in(e)
    \/ \E e \in Emails, u \in Usernames : sign_up(e, u)
    \/ log_out
    \/ \E i \in ItemIds, q \in 1..MaxQty : cli_add(i, q)
    \/ \E i \in ItemIds, q \in 1..MaxQty : cli_remove(i, q)
    \/ checkout_cli

SpecCli == InitCli /\ [][NextCli]_vars

\* the store as a whole: api.py or the CLI
Init == InitApi \/ InitCli

Next == NextApi \/ NextCli

Spec == Init /\ [][Next]_vars

\* the API and the command-line store with its pre-generated user alone
\* (nobody signs up): the state space the checkout properties are checked on
NextCliSession ==
    \/ \E e \in Emails : log_in(e)
    \/ log_out
    \/ \E i \in ItemIds, q \in 1..MaxQty : cli_add(i, q)
    \/ \E i \in ItemIds, q \in 1..MaxQty : cli_remove(i, q)
    \/ checkout_cli

\* the API routes, orders created one unit of one item at a time
NextApiCheckout ==
    \/ \E u \in Usernames : register_user(u)
    \/ \E i \in ItemIds, q \in 1..MaxQty : add_item_to_cart(i, q)
    \/ \E p \in {10, 150} : apply_cart_discount(p, 1)
    \/ \E u \in Usernames, i \in ItemIds :
          create_order(u, <<[id |-> i, qty |-> 1]>>)
    \/ \E u \in Usernames : checkout(u)

NextCheckout == NextApiCheckout \/ NextCliSession

SpecCheckout == Init /\ [][NextCheckout]_vars

\* every operation that reads or writes the inventory: the cart, discount,
\* inventory, order and checkout routes of the API for one user, one unit
\* at a time, and the menu of the command-line store
NextStore ==
    \/ register_user("Alice")
    \/ \E i \in ItemIds : add_item_to_cart(i, 1)
    \/ \E i \in ItemIds : remove_item_from_cart(i, 1)
    \/ apply_cart_discount(10, 1)
    \/ \E i \in ItemIds : update_inventory_item(i, 0)
    \/ \E i \in ItemIds : remove_inventory_item(i)
    \/ \E i \in ItemIds : create_order("Alice", <<[id |-> i, qty |-> 1]>>)
    \/ checkout("Alice")
    \/ NextCliSession
    \/ show_total_price

SpecStore == Init /\ [][NextStore]_vars

\* the lines a create_order request carries: one line or two, the same
\* item id twice included
OrderLinePairs ==
    OrderLines
    \cup {<<l1, l2>> : l1 \in [id : ItemIds, qty : 1..MaxQty],
                       l2 \in [id : ItemIds, qty : {1}]}

\* the cart, checkout and order routes of api.py and of main.py served as
\* API; nothing writes the inventory directly
NextOrders ==
    \/ register_user("Alice")
    \/ \E i \in ItemIds, q \in 1..MaxQty : add_item_to_cart(i, q)
    \/ \E i \in ItemIds : remove_item_from_cart(i, 1)
    \/ \E u \in Usernames, l \in OrderLinePairs : create_order(u, l)
    \/ \E u \in Usernames : checkout(u)

SpecOrders == (InitApi \/ InitMainApi) /\ [][NextOrders]_vars

\* accounts and what hangs on them: registration and orders in the API,
\* sign-up, sessions and carts in the command-line store
NextAccounts ==
    \/ \E u \in Usernames : register_user(u)
    \/ \E u \in Usernames, i \in ItemIds :
          create_order(u, <<[id |-> i, qty |-> 1]>>)
    \/ \E e \in Emails : sign_up(e, "Bob")
    \/ \E e \in Emails : log_in(e)
    \/ log_out
    \/ \E i \in ItemIds : cli_add(i, 1)

SpecAccounts == Init /\ [][NextAccounts]_vars

\* the cart and the inventory alone, in api.py and in main.py served as
\* API: every quantity, no discount
NextCart ==
    \/ \E i \in ItemIds, q \in Quantities : add_item_to_cart(i, q)
    \/ \E i \in ItemIds, q \in Quantities : remove_item_from_cart(i, q)
    \/ \E i \in ItemIds, q \in 0..MaxQty : update_inventory_item(i, q)
    \/ \E i \in ItemIds : remove_inventory_item(i)

SpecCart == (InitApi \/ InitMainApi) /\ [][NextCart]_vars

\* the cart with discounts
NextDiscount ==
    \/ \E i \in ItemIds, q \in 1..MaxQty : add_item_to_cart(i, q)
    \/ \E i \in ItemIds, q \in 1..MaxQty : remove_item_from_cart(i, q)
    \/ \E p \in Percentages : apply_cart_discount(p, MaxDiscounts)

SpecDiscount == InitApi /\ [][NextDiscount]_vars

(***************************************************************************)
(* The command-line store's checkout_cli run for several users at once.    *)
(* In mode "cli_threads" the validation loop and the deduction loop of     *)
(* checkout_cli are two steps, and steps of different users interleave; in *)
(* mode "cli_locked" a checkout_cli call is one step.  Every user is       *)
(* inside user_interface with the cart shopping_carts[user.email].         *)
(***************************************************************************)
\* initialize_users: the first two pre-generated users, e-mail -> username
ThreadUsers ==
    ("alice@example.com" :> "Alice") @@ ("bob@example.com" :> "Bob")

InitThreads ==
    /\ mode \in {"cli_threads", "cli_locked"}
    /\ inventory = [i \in ItemIds |-> add_item(add_item(<<>>, i, InitStock),
                                               i, InitStock)[i]]
    /\ inv_catalog = catalog
    /\ shopping_cart = NewCart
    /\ user_db = <<>>
    /\ orders = <<>>
    /\ user_orders = <<>>
    /\ user_accounts = [e \in DOMAIN ThreadUsers |-> [username |-> ThreadUsers[e]]]
    /\ shopping_carts = [e \in DOMAIN ThreadUsers |-> NewCart]
    /\ order_hist = [e \in DOMAIN ThreadUsers |-> <<>>]
    /\ session = [user |-> NoUser, detached |-> FALSE, cart |-> NewCart]
    /\ held = [live |-> FALSE, key |-> NoUser, list |-> <<>>]
    /\ catalog_view = NoView
    /\ user_fields = NewUser
    /\ checking = {}
    /\ discounts = 0
    /\ last = Call("init", 0, "ok", "None")

\* what no step of a user's menu touches
ThreadFrame ==
    /\ UNCHANGED <<mode, inv_catalog, user_accounts, session, held,
                   catalog_view, user_fields>>
    /\ UNCHANGED api_vars

\* user_interface(user), choice 1, for the user with this e-mail
thread_add(email, item_id, quantity) ==
    /\ mode \in {"cli_threads", "cli_locked"}
    /\ email \notin checking
    /\ item_id \in DOMAIN catalog
    /\ LET r == add_furniture(shopping_carts[email], inventory, inv_catalog,
                              item_id, quantity)
       IN  /\ InRange(r.cart)
           /\ shopping_carts' = [shopping_carts EXCEPT ![email] = r.cart]
           /\ last' = Call("cli_add", email, r.out, "None")
    /\ UNCHANGED <<inventory, user_orders, order_hist, checking>>
    /\ ThreadFrame

\* checkout_cli up to the end of its first loop: the emptiness test and the
\* stock validation of every entry
checkout_cli_validate(email) ==
    /\ mode = "cli_threads"
    /\ email \notin checking
    /\ LET cart == shopping_carts[email]
       IN  IF cart_is_empty(cart)
           THEN /\ last' = Call("checkout_cli", email, "empty_cart", "None")
                /\ UNCHANGED checking
           ELSE IF ~cli_validate(cart.items, inventory)
           THEN /\ last' = Call("checkout_cli", email, "no_stock", "None")
                /\ UNCHANGED checking
           ELSE /\ checking' = checking \cup {email}
                /\ last' = Call("checkout_cli_validate", email, "validated", "None")
    /\ UNCHANGED <<inventory, user_orders, order_hist, shopping_carts>>
    /\ ThreadFrame

\* the rest of checkout_cli: the second loop, the order, the new cart
checkout_cli_deduct(email) ==
    /\ mode = "cli_threads"
    /\ email \in checking
    /\ NumOrders < MaxOrders
    /\ LET cart == shopping_carts[email]
           order == Order(email, user_accounts[email].username,
                          CartKeys(cart.items), cart.total, "Pending")
       IN  /\ inventory' = cli_deduct(cart.items, inventory)
           /\ user_orders' = update(user_orders, order)
           /\ order_hist' = add_order(order_hist, order)
           /\ shopping_carts' = [shopping_carts EXCEPT ![email] = NewCart]
           /\ checking' = checking \ {email}
           /\ last' = Call("checkout_cli", email, "ok", "None")
    /\ ThreadFrame

\* checkout_cli run as one step
checkout_cli_locked(email) ==
    /\ mode = "cli_locked"
    /\ LET cart == shopping_carts[email]
           order == Order(email, user_accounts[email].username,
                          CartKeys(cart.items), cart.total, "Pending")
       IN  IF cart_is_empty(cart)
           THEN /\ last' = Call("checkout_cli", email, "empty_cart", "None")
                /\ UNCHANGED <<inventory, user_orders, order_hist,
                               shopping_carts>>
           ELSE IF ~cli_validate(cart.items, inventory)
           THEN /\ last' = Call("checkout_cli", email, "no_stock", "None")
                /\ UNCHANGED <<inventory, user_orders, order_hist,
                               shopping_carts>>
           ELSE /\ NumOrders < MaxOrders
                /\ inventory' = cli_deduct(cart.items, inventory)
                /\ user_orders' = update(user_orders, order)
                /\ order_hist' = add_order(order_hist, order)
                /\ shopping_carts' = [shopping_carts EXCEPT ![email] = NewCart]
                /\ last' = Call("checkout_cli", email, "ok", "None")
    /\ UNCHANGED checking
    /\ ThreadFrame

\* the command-line store with every checkout_cli call run as one step
InitLocked == InitThreads /\ mode = "cli_locked"

\* every path that takes units out of the inventory, each request and each
\* checkout one step: the API's cart, order and checkout routes and the
\* carts of two command-line users
NextAtomic ==
    \/ register_user("Alice")
    \/ \E i \in ItemIds, q \in 1..MaxQty : add_item_to_cart(i, q)
    \/ \E i \in ItemIds : remove_item_from_cart(i, 1)
    \/ \E l \in OrderLinePairs : create_order("Alice", l)
    \/ \E u \in Usernames : checkout(u)
    \/ \E e \in DOMAIN ThreadUsers, i \in ItemIds : thread_add(e, i, MaxQty)
    \/ \E e \in DOMAIN ThreadUsers : checkout_cli_locked(e)

SpecAtomic == (InitApi \/ InitLocked) /\ [][NextAtomic]_vars

NextThreads ==
    \/ \E e \in DOMAIN ThreadUsers, i \in ItemIds : thread_add(e, i, MaxQty)
    \/ \E e \in DOMAIN ThreadUsers : checkout_cli_validate(e)
    \/ \E e \in DOMAIN ThreadUsers : checkout_cli_deduct(e)
    \/ \E e \in DOMAIN ThreadUsers : checkout_cli_locked(e)

SpecThreads == InitThreads /\ [][NextThreads]_vars

(***************************************************************************)
(* The UserOrderDictionary called directly, as the tests do: orders are    *)
(* pushed through update, lists are fetched and then changed by the        *)
(* caller.  User objects are named by their usernames.                     *)
(***************************************************************************)
\* the totals of the orders pushed
Totals == {10000, 40000}

InitLib ==
    /\ mode = "lib"
    /\ inventory = [i \in ItemIds |-> InitStock]
    /\ inv_catalog = catalog
    /\ shopping_cart = NewCart
    /\ user_db = [u \in Usernames |-> [username |-> u]]
    /\ orders = <<>>
    /\ user_orders = <<>>
    /\ order_hist = [u \in Usernames |-> <<>>]
    /\ user_accounts = <<>>
    /\ shopping_carts = <<>>
    /\ session = [user |-> NoUser, detached |-> FALSE, cart |-> NewCart]
    /\ held = [live |-> FALSE, key |-> NoUser, list |-> <<>>]
    /\ catalog_view = NoView
    /\ user_fields = NewUser
    /\ checking = {}
    /\ discounts = 0
    /\ last = Call("init", 0, "ok", "None")

\* user_order_dict.update(order): the dictionary and the user's history
notify_update(username, total_price) ==
    /\ mode = "lib"
    /\ NumOrders < MaxOrders
    /\ LET order == Order(username, user_db[username].username, <<>>,
                          total_price, "pending")
       IN  /\ user_orders' = update(user_orders, order)
           /\ order_hist' = add_order(order_hist, order)
    /\ last' = Call("update", username, "ok", "None")
    /\ UNCHANGED <<mode, inventory, inv_catalog,
                   held, catalog_view, user_fields>>
    /\ UNCHANGED api_vars
    /\ UNCHANGED cli_vars

\* orders = user_order_dict.get_orders_for_user(user): the caller keeps the
\* list it was given
call_get_orders_for_user(username) ==
    /\ mode = "lib"
    /\ held' = get_orders_for_user(user_orders, username)
    /\ last' = Call("get_orders_for_user", username, "ok", "list")
    /\ UNCHANGED <<mode, inventory, inv_catalog, user_orders, order_hist,
                   catalog_view, user_fields>>
    /\ UNCHANGED api_vars
    /\ UNCHANGED cli_vars

\* the list after the caller changed it to new_list: a list that is the
\* stored one changes the dictionary with it
ReturnedListBecomes(op, new_list) ==
    /\ mode = "lib"
    /\ held.key # NoUser
    /\ held' = [held EXCEPT !.list = new_list]
    /\ user_orders' = IF held.live
                      THEN [user_orders EXCEPT ![held.key] = new_list]
                      ELSE user_orders
    /\ last' = Call(op, held.key, "ok", "None")
    /\ UNCHANGED <<mode, inventory, inv_catalog, order_hist,
                   catalog_view, user_fields>>
    /\ UNCHANGED api_vars
    /\ UNCHANGED cli_vars

\* orders.append(x) on the returned list
returned_list_append(total_price) ==
    /\ Len(held.list) < MaxHeld
    /\ ReturnedListBecomes("list_append",
          Append(held.list, Order(held.key, held.key, <<>>, total_price, "pending")))

\* orders.pop() on the returned list
returned_list_pop ==
    /\ held.list # <<>>
    /\ ReturnedListBecomes("list_pop", SubSeq(held.list, 1, Len(held.list) - 1))

\* user_order_dict.clear_user_orders(user)
call_clear_user_orders(username) ==
    /\ mode = "lib"
    /\ user_orders' = clear_user_orders(user_orders, username)
    /\ last' = Call("clear_user_orders", username, "ok", "None")
    /\ UNCHANGED <<mode, inventory, inv_catalog, order_hist,
                   held, catalog_view, user_fields>>
    /\ UNCHANGED api_vars
    /\ UNCHANGED cli_vars

NextLib ==
    \/ \E u \in Usernames, t \in Totals : notify_update(u, t)
    \/ \E u \in Usernames : call_get_orders_for_user(u)
    \/ \E t \in Totals : returned_list_append(t)
    \/ returned_list_pop
    \/ \E u \in Usernames : call_clear_user_orders(u)

SpecLib == InitLib /\ [][NextLib]_vars

(***************************************************************************)
(* The Inventory called directly, as its tests do (inventory.py).  Strings *)
(* are sequences of characters; an Optional argument is <<>> for None and  *)
(* <<v>> for the value v.                                                  *)
(***************************************************************************)
None == <<>>
Some(v) == <<v>>

\* StoreItem.title and the class name of every catalog item (api.py)
titles ==
    (1 :> <<"M", "o", "d", "e", "r", "n", " ", "T", "a", "b", "l", "e">>)
    @@ (2 :> <<"Q", "u", "e", "e", "n", " ", "B", "e", "d">>)

class_names ==
    (1 :> <<"T", "a", "b", "l", "e">>) @@ (2 :> <<"B", "e", "d">>)

\* str.lower(), on the letters the titles and the searches use
LowerOf ==
    ("M" :> "m") @@ ("T" :> "t") @@ ("Q" :> "q") @@ ("B" :> "b")
    @@ ("E" :> "e") @@ ("D" :> "d") @@ ("A" :> "a") @@ ("L" :> "l")

lower(str) ==
    [k \in 1..Len(str) |-> IF str[k] \in DOMAIN LowerOf THEN LowerOf[str[k]]
                           ELSE str[k]]

\* Python's "sub in str"
Contains(sub, str) ==
    \E k \in 0..(Len(str) - Len(sub)) : SubSeq(str, k + 1, k + Len(sub)) = sub

\* Python's truth value of an Optional argument: None, "" and 0 are false
Truthy(opt, empty) == opt # None /\ opt[1] # empty

\* the for loop of search_items over the ids still to visit, in dict order
RECURSIVE search_loop(_, _, _, _, _, _, _)
search_loop(ids, items, cat, name, category, min_price, max_price) ==
    IF ids = <<>> THEN <<>>
    ELSE LET id == Head(ids)
             rest == search_loop(Tail(ids), items, cat, name, category,
                                 min_price, max_price)
         IN  IF id \notin DOMAIN items THEN rest
             ELSE IF Truthy(name, <<>>)
                     /\ ~Contains(lower(name[1]), lower(titles[id])) THEN rest
             ELSE IF Truthy(category, <<>>)
                     /\ lower(category[1]) # lower(class_names[id]) THEN rest
             ELSE IF Truthy(min_price, 0) /\ cat[id] < min_price[1] THEN rest
             ELSE IF Truthy(max_price, 0) /\ cat[id] > max_price[1] THEN rest
             ELSE <<id>> \o rest

\* the keys of a mapping in ascending order: the order of the catalog dict
RECURSIVE KeysInOrder(_)
KeysInOrder(keys) ==
    IF keys = {} THEN <<>>
    ELSE LET k == CHOOSE x \in keys : \A y \in keys : x <= y
         IN  <<k>> \o KeysInOrder(keys \ {k})

\* Inventory.search_items: the ids of the items returned, in order
search_items(items, cat, name, category, min_price, max_price) ==
    search_loop(KeysInOrder(DOMAIN get_catalog(cat)), items, get_catalog(cat),
                name, category, min_price, max_price)

\* a faulty get_catalog that hands out the inventory's own dict
catalog_copy_live(cat) == [live |-> TRUE, map |-> get_catalog(cat)]

\* the copy get_catalog hands out: a new dict with the catalog's entries
\* (live = TRUE would be the inventory's own dict)
catalog_copy(cat) == [live |-> FALSE, map |-> get_catalog(cat)]

\* the searches made
Names == {None, Some(<<"T", "A", "B">>)}
Categories == {None, Some(<<>>), Some(<<"b", "e", "d">>)}
MinPrices == {None, Some(15000)}
MaxPrices == {None, Some(0), Some(15000)}

\* a stock the direct calls keep within the modelled range
InStockRange(items) ==
    \A i \in DOMAIN items : items[i] >= 0 - 1 /\ items[i] <= MaxQty

InitInventory ==
    /\ mode = "inventory"
    /\ inventory = [i \in ItemIds |-> InitStock]
    /\ inv_catalog = catalog
    /\ InitCommon

\* what the direct calls on the inventory leave alone
InventoryFrame ==
    /\ UNCHANGED <<mode, user_orders, order_hist, held, user_fields>>
    /\ UNCHANGED api_vars
    /\ UNCHANGED cli_vars

\* inventory.add_item(item_id, quantity)
call_add_item(item_id, quantity) ==
    /\ mode = "inventory"
    /\ inventory' = add_item(inventory, item_id, quantity)
    /\ InStockRange(inventory')
    /\ last' = Call("add_item", [id |-> item_id, q |-> quantity], "ok", "None")
    /\ UNCHANGED <<inv_catalog, catalog_view>>
    /\ InventoryFrame

\* inventory.remove_item(item_id)
call_remove_item(item_id) ==
    /\ mode = "inventory"
    /\ inventory' = remove_item(inventory, item_id)
    /\ last' = Call("remove_item", [id |-> item_id, q |-> 0], "ok", "None")
    /\ UNCHANGED <<inv_catalog, catalog_view>>
    /\ InventoryFrame

\* inventory.update_quantity(item_id, quantity)
call_update_quantity(item_id, quantity) ==
    /\ mode = "inventory"
    /\ inventory' = update_quantity(inventory, item_id, quantity)
    /\ last' = Call("update_quantity", [id |-> item_id, q |-> quantity],
                    "ok", "None")
    /\ UNCHANGED <<inv_catalog, catalog_view>>
    /\ InventoryFrame

\* inventory.search_items(name, category, min_price, max_price)
call_search_items(name, category, min_price, max_price) ==
    /\ mode = "inventory"
    /\ last' = Call("search_items",
                    [name |-> name, category |-> category,
                     min_price |-> min_price, max_price |-> max_price],
                    "ok",
                    search_items(inventory, inv_catalog, name, category,
                                 min_price, max_price))
    /\ UNCHANGED <<inventory, inv_catalog, catalog_view>>
    /\ InventoryFrame

\* view = inventory.get_catalog()
call_get_catalog ==
    /\ mode = "inventory"
    /\ catalog_view' = [fetched |-> TRUE] @@ catalog_copy(inv_catalog)
    /\ last' = Call("get_catalog", [id |-> 0, q |-> 0], "ok", "dict")
    /\ UNCHANGED <<inventory, inv_catalog>>
    /\ InventoryFrame

\* the caller changes the mapping it was given to new_map: a mapping that
\* is the inventory's own dict changes the catalog with it
ViewBecomes(op, item_id, new_map) ==
    /\ mode = "inventory"
    /\ catalog_view.fetched
    /\ catalog_view' = [catalog_view EXCEPT !.map = new_map]
    /\ inv_catalog' = IF catalog_view.live THEN new_map ELSE inv_catalog
    /\ last' = Call(op, [id |-> item_id, q |-> 0], "ok", "None")
    /\ UNCHANGED inventory
    /\ InventoryFrame

\* view[item_id] = item: a key added or replaced (here: at another price)
view_set(item_id, price) ==
    ViewBecomes("view_set", item_id, (item_id :> price) @@ catalog_view.map)

\* del view[item_id]
view_del(item_id) ==
    /\ item_id \in DOMAIN catalog_view.map
    /\ ViewBecomes("view_del", item_id,
          [i \in DOMAIN catalog_view.map \ {item_id} |-> catalog_view.map[i]])

NextInventory ==
    \/ \E i \in ItemIds, q \in Quantities : call_add_item(i, q)
    \/ \E i \in ItemIds : call_remove_item(i)
    \/ \E i \in ItemIds, q \in Quantities : call_update_quantity(i, q)
    \/ \E n \in Names, c \in Categories, lo \in MinPrices, hi \in MaxPrices :
          call_search_items(n, c, lo, hi)
    \/ call_get_catalog
    \/ \E i \in ItemIds : view_set(i, 0)
    \/ \E i \in ItemIds : view_del(i)

SpecInventory == InitInventory /\ [][NextInventory]_vars

(***************************************************************************)
(* The User object called directly: login, manage_profile,                *)
(* view_order_history and add_order on one user.                           *)
(***************************************************************************)
\* User.verify_password: bcrypt.checkpw of the given password against the
\* hash of the password the user was constructed with
verify_password(user, password) == password = user.password

\* a faulty login that does not look at the password
login_any_password(user, email, password) ==
    IF user.email = email
    THEN [user EXCEPT !.is_logged = TRUE]
    ELSE user

\* User.login: the user after the call
login(user, email, password) ==
    IF user.email = email /\ verify_password(user, password)
    THEN [user EXCEPT !.is_logged = TRUE]
    ELSE user

\* User.login: the message returned
login_message(user, email, password) ==
    IF user.email = email /\ verify_password(user, password)
    THEN "logged in successfully"
    ELSE "Invalid email or password."

\* User.manage_profile: the user after the call; an argument that is None
\* or empty leaves its field alone
manage_profile(user, full_name, address, phone_number) ==
    IF ~user.is_logged
    THEN user
    ELSE [user EXCEPT
            !.full_name = IF Truthy(full_name, "") THEN full_name[1] ELSE @,
            !.address = IF Truthy(address, "") THEN address[1] ELSE @,
            !.phone_number =
                IF Truthy(phone_number, "") THEN phone_number[1] ELSE @]

\* User.manage_profile: the message returned
manage_profile_message(user) ==
    IF ~user.is_logged
    THEN "You must log in to manage your profile."
    ELSE "updated successfully"

\* User.view_order_history: a message (type "str") or the user's list of
\* orders (type "list")
view_order_history(user, hist) ==
    IF ~user.is_logged
    THEN [type |-> "str", list |-> <<>>,
          str |-> "You must log in to view your order history."]
    ELSE IF hist = <<>>
         THEN [type |-> "str", list |-> <<>>,
               str |-> "No orders found in your history."]
         ELSE [type |-> "list", list |-> hist, str |-> ""]

\* the e-mail addresses and passwords tried at login
LoginEmails == {"alice@example.com", "bob@example.com"}
Passwords == {"Alice123", "alice123"}
\* the values a profile call may carry for each field
FullNames == {None, Some(""), Some("Alice W.")}
Addresses == {None, Some("1 Oak Ave")}
PhoneNumbers == {None, Some("987654321")}

InitUser ==
    /\ mode = "user"
    /\ inventory = [i \in ItemIds |-> InitStock]
    /\ inv_catalog = catalog
    /\ shopping_cart = NewCart
    /\ user_db = ("Alice" :> [username |-> "Alice"])
    /\ orders = <<>>
    /\ user_orders = <<>>
    /\ order_hist = ("Alice" :> <<>>)
    /\ user_accounts = <<>>
    /\ shopping_carts = <<>>
    /\ session = [user |-> NoUser, detached |-> FALSE, cart |-> NewCart]
    /\ held = [live |-> FALSE, key |-> NoUser, list |-> <<>>]
    /\ catalog_view = NoView
    /\ user_fields = NewUser
    /\ checking = {}
    /\ discounts = 0
    /\ last = Call("init", 0, "ok", "None")

\* what no call on the user touches
UserFrame ==
    /\ UNCHANGED <<mode, inventory, inv_catalog, user_orders, held,
                   catalog_view>>
    /\ UNCHANGED api_vars
    /\ UNCHANGED cli_vars

\* user.login(email, password)
call_login(email, password) ==
    /\ mode = "user"
    /\ user_fields' = login(user_fields, email, password)
    /\ last' = Call("login", [email |-> email, password |-> password],
                    login_message(user_fields, email, password), "None")
    /\ UNCHANGED order_hist
    /\ UserFrame

\* user.manage_profile(full_name, address, phone_number)
call_manage_profile(full_name, address, phone_number) ==
    /\ mode = "user"
    /\ user_fields' = manage_profile(user_fields, full_name, address,
                                     phone_number)
    /\ last' = Call("manage_profile",
                    [full_name |-> full_name, address |-> address,
                     phone_number |-> phone_number],
                    manage_profile_message(user_fields), "None")
    /\ UNCHANGED order_hist
    /\ UserFrame

\* user.view_order_history()
call_view_order_history ==
    /\ mode = "user"
    /\ last' = Call("view_order_history", 0, "ok",
                    view_order_history(user_fields,
                                       order_hist[user_fields.username]))
    /\ UNCHANGED <<user_fields, order_hist>>
    /\ UserFrame

\* user.add_order(order)
call_add_order(total_price) ==
    /\ mode = "user"
    /\ Len(order_hist[user_fields.username]) < MaxOrders
    /\ order_hist' = add_order(order_hist,
                               Order(user_fields.username,
                                     user_fields.username, <<>>,
                                     total_price, "pending"))
    /\ last' = Call("add_order", total_price, "ok", "None")
    /\ UNCHANGED user_fields
    /\ UserFrame

NextUser ==
    \/ \E e \in LoginEmails, p \in Passwords : call_login(e, p)
    \/ \E n \in FullNames, a \in Addresses, ph \in PhoneNumbers :
          call_manage_profile(n, a, ph)
    \/ call_view_order_history
    \/ \E t \in Totals : call_add_order(t)

SpecUser == InitUser /\ [][NextUser]_vars

(***************************************************************************)
(* Helpers of the properties.                                              *)
(***************************************************************************)
\* the entries of c2 are those of c1 with the quantity of item i raised by q
RaisedBy(c1, c2, i, q) ==
    /\ InCart(c2, i)
    /\ CartQty(c2, i) = CartQty(c1, i) + q
    /\ \A j \in ItemIds \ {i} :
          InCart(c2, j) = InCart(c1, j) /\ CartQty(c2, j) = CartQty(c1, j)

\* items2 is items1 with every entry of cart c deducted, nothing else touched
DeductedBy(items1, items2, c) ==
    /\ DOMAIN items2 = DOMAIN items1
    /\ \A i \in DOMAIN items1 : items2[i] = items1[i] - CartQty(c, i)

\* the units of item i in the lines of one order
RECURSIVE LineQty(_, _)
LineQty(lines, i) ==
    IF lines = <<>> THEN 0
    ELSE (IF Head(lines).id = i THEN Head(lines).qty ELSE 0)
         + LineQty(Tail(lines), i)

\* the units of item i in all the orders of a list
RECURSIVE OrderedQty(_, _)
OrderedQty(os, i) ==
    IF os = <<>> THEN 0
    ELSE LineQty(Head(os).items, i) + OrderedQty(Tail(os), i)

\* the last element of a non-empty sequence
Last(seq) == seq[Len(seq)]

\* the list stored for a username, empty when there is none
StoredOrders(uo, username) ==
    IF username \in DOMAIN uo THEN uo[username] ELSE <<>>

\* exactly order o was registered for user object key: appended to the
\* dictionary under o.username and to the user's history, nothing else
RegisteredOne(key, o) ==
    /\ o.user = key
    /\ user_orders'[o.username] = Append(StoredOrders(user_orders, o.username), o)
    /\ \A n \in DOMAIN user_orders' \ {o.username} :
          n \in DOMAIN user_orders /\ user_orders'[n] = user_orders[n]
    /\ order_hist' = [order_hist EXCEPT ![key] = Append(@, o)]

(***************************************************************************)
(* C1.  After every add_furniture / remove_furniture call on a cart (no    *)
(* apply_discount), the running total equals the sum over the cart's       *)
(* entries of catalog price * quantity.                                    *)
(* Stated as an invariant of the cart-only specification; it fails in      *)
(* main.py served as API, where add_furniture writes _cart_items and then  *)
(* raises KeyError before the total is updated.                            *)
(***************************************************************************)
C1_TotalIsSum ==
    shopping_cart.total = SumEntries(shopping_cart.items, catalog)

(***************************************************************************)
(* C2.  add_furniture(item_id, q) changes the cart only if item_id is a    *)
(* key of the inventory and (quantity already in the cart) + q is at most  *)
(* the inventory quantity; after such an add the cart quantity of the item *)
(* does not exceed the inventory quantity.                                 *)
(***************************************************************************)
C2_AddWithinStock ==
    [][ (last'.op = "add_item_to_cart" /\ shopping_cart' # shopping_cart) =>
          \E i \in ItemIds, q \in Quantities :
             /\ RaisedBy(shopping_cart, shopping_cart', i, q)
             /\ i \in DOMAIN inventory
             /\ CartQty(shopping_cart, i) + q <= get_quantity(inventory, i)
             /\ CartQty(shopping_cart', i) <= get_quantity(inventory', i) ]_vars

\* an add brought an entry up to the whole stock of its item
C2_Witness ==
    /\ last.op = "add_item_to_cart"
    /\ last.out = "added"
    /\ \E i \in DOMAIN inventory :
          InCart(shopping_cart, i) /\ inventory[i] >= 1
          /\ CartQty(shopping_cart, i) = inventory[i]

C4_FailedCheckoutKeepsInventory ==
    [][ (last'.op \in {"checkout", "checkout_cli"} /\ last'.out = "no_stock")
          => inventory' = inventory ]_vars

(***************************************************************************)
(* C5.  Checkout on a cart with no entries always fails (with the          *)
(* empty-cart error whenever the user exists), creates no Order and leaves *)
(* the inventory and the UserOrderDictionary unchanged.                    *)
(***************************************************************************)
C5_EmptyCartCheckoutFails ==
    [][ /\ (last'.op = "checkout" /\ shopping_cart.items = <<>>) =>
             /\ last'.out \in {"no_user", "empty_cart"}
             /\ last'.resp \in {"404", "400"}
             /\ (last'.a \in DOMAIN user_db =>
                    last'.out = "empty_cart" /\ last'.resp = "400")
             /\ UNCHANGED <<inventory, orders, user_orders, order_hist>>
        /\ (last'.op = "checkout_cli" /\ SessionCart.items = <<>>) =>
             /\ last'.out = "empty_cart"
             /\ UNCHANGED <<inventory, orders, user_orders, order_hist>> ]_vars

\* a registered user's checkout of the empty global cart was refused
C5_Witness ==
    /\ last.op = "checkout"
    /\ last.out = "empty_cart"
    /\ last.a \in DOMAIN user_db
    /\ shopping_cart.items = <<>>
    /\ orders = <<>>

(***************************************************************************)
(* C6.  Every successful checkout registers exactly one new Order for the  *)
(* checking-out user, and that Order's total_price is the cart's running   *)
(* total at the moment of checkout, any discount applied before included.  *)
(***************************************************************************)
C6_CheckoutRegistersOneOrder ==
    [][ /\ (last'.op = "checkout" /\ last'.out = "ok") =>
             /\ orders' = Append(orders, Last(orders'))
             /\ RegisteredOne(last'.a, Last(orders'))
             /\ Last(orders').total_price = shopping_cart.total
        /\ (last'.op = "checkout_cli" /\ last'.out = "ok") =>
             /\ RegisteredOne(session.user, Last(order_hist'[session.user]))
             /\ Last(order_hist'[session.user]).total_price = SessionCart.total
      ]_vars

\* one unit priced 150.00 with a 10% discount was checked out: the order
\* total is 135.00 and the stock went down by one
C6_Witness ==
    /\ last.op = "checkout"
    /\ last.out = "ok"
    /\ Last(orders).total_price = 13500
    /\ Last(orders).items = <<[id |-> 1, qty |-> 1]>>
    /\ inventory[1] = InitStock - 1

(***************************************************************************)
(* C7.  After any sequence of checkouts for a user u, the number of orders *)
(* get_orders_for_user(u) returns equals the number of orders in u's own   *)
(* order history (u._order_hist).                                          *)
(* Stated as an invariant over every User object of the command-line       *)
(* store; it fails once sign_up has created a second user with a username  *)
(* that is already taken.                                                  *)
(***************************************************************************)
C7_DictionaryMatchesHistory ==
    \A e \in DOMAIN user_accounts :
        Len(get_orders_for_user(user_orders, user_accounts[e].username).list)
            = Len(order_hist[e])

(***************************************************************************)
(* C8.  get_orders_for_user returns a fresh list: appending to or removing *)
(* from the returned list never changes what a later get_orders_for_user   *)
(* call for the same user returns.                                         *)
(***************************************************************************)
C8_ReturnedListIsFresh ==
    [][ last'.op \in {"list_append", "list_pop"} =>
          \A u \in Usernames :
             get_orders_for_user(user_orders', u).list
                 = get_orders_for_user(user_orders, u).list ]_vars

\* a caller appended to the list returned for a user who has an order, and
\* the stored list is still the shorter one
C8_Witness ==
    /\ last.op = "list_append"
    /\ held.key \in DOMAIN user_orders
    /\ user_orders[held.key] # <<>>
    /\ Len(held.list) > Len(user_orders[held.key])
    /\ get_orders_for_user(user_orders, held.key).list = order_hist[held.key]

(***************************************************************************)
(* C9.  apply_discount(p) with p <= 0 or p > 100 leaves the cart total and *)
(* the cart entries unchanged and signals the error to the caller (an      *)
(* exception, an error return, an HTTP 4xx), not a normal return or a      *)
(* success response.                                                       *)
(* The cart is indeed left alone; the method only prints and returns None, *)
(* and the route answers 200.                                              *)
(***************************************************************************)
C9_InvalidDiscountSignalled ==
    [][ (last'.op = "apply_cart_discount" /\ (last'.a <= 0 \/ last'.a > 100)) =>
          /\ shopping_cart' = shopping_cart
          /\ last'.resp \notin {"200", "None"} ]_vars

(***************************************************************************)
(* C10.  For 0 < p <= 100, apply_discount(p) on a cart whose total is T    *)
(* makes the total T - (p/100)*T and changes nothing else; a second        *)
(* discount applies to the already discounted total, and items added       *)
(* after a discount enter the total at full catalog price.                 *)
(***************************************************************************)
C10_DiscountScalesTotal ==
    [][ /\ (last'.op = "apply_cart_discount" /\ last'.a > 0 /\ last'.a <= 100) =>
             /\ last'.out = "discounted"
             /\ 100 * shopping_cart'.total
                    = 100 * shopping_cart.total - last'.a * shopping_cart.total
             /\ shopping_cart'.items = shopping_cart.items
             /\ inventory' = inventory
        /\ (last'.op = "add_item_to_cart" /\ last'.out = "added") =>
             \E i \in ItemIds, q \in Quantities :
                /\ RaisedBy(shopping_cart, shopping_cart', i, q)
                /\ shopping_cart'.total = shopping_cart.total + catalog[i] * q
      ]_vars

\* 300.00 discounted by 10% twice is 243.00, and the item priced 150.00
\* added afterwards brings the total to 393.00
C10_Witness ==
    /\ last.op = "add_item_to_cart"
    /\ last.out = "added"
    /\ discounts = 2
    /\ shopping_cart.items = <<[id |-> 2, qty |-> 1], [id |-> 1, qty |-> 1]>>
    /\ shopping_cart.total = 39300

(***************************************************************************)
(* C11.  An add_furniture call that is rejected (the item is not a key of  *)
(* the inventory, or requested plus in-cart quantity is above the          *)
(* available stock) leaves the cart entries, the cart total and the        *)
(* inventory exactly as they were.                                         *)
(* Stated in two parts: in every state, every call of that kind would be   *)
(* rejected and hand the cart back as it is; and every add that was        *)
(* rejected left cart and inventory alone.                                 *)
(***************************************************************************)
C11_RejectedAddChangesNothing ==
    [][ /\ \A i \in ItemIds, q \in Quantities :
              (i \notin DOMAIN inventory
                 \/ CartQty(shopping_cart, i) + q > get_quantity(inventory, i)) =>
              LET r == add_furniture(shopping_cart, inventory, inv_catalog, i, q)
              IN  r.out \in {"not_found", "no_stock"} /\ r.cart = shopping_cart
        /\ (last'.op = "add_item_to_cart"
               /\ last'.out \in {"not_found", "no_stock"}) =>
              /\ shopping_cart' = shopping_cart
              /\ inventory' = inventory
              /\ inv_catalog' = inv_catalog ]_vars

\* an add was turned down for lack of stock while the cart already holds the
\* whole stock of an item
C11_Witness ==
    /\ last.op = "add_item_to_cart"
    /\ last.out = "no_stock"
    /\ shopping_cart.items # <<>>
    /\ \A i \in ItemIds : InCart(shopping_cart, i) =>
          i \in DOMAIN inventory /\ CartQty(shopping_cart, i) = inventory[i]
    /\ shopping_cart.total = SumEntries(shopping_cart.items, catalog)

(***************************************************************************)
(* C12.  No ShoppingCart operation (add_furniture, remove_furniture,       *)
(* apply_discount, show_total_price), whether it succeeds or is rejected,  *)
(* changes any inventory quantity; the inventory is changed only by        *)
(* checkout, order creation and the inventory's own operations.            *)
(***************************************************************************)
C12_CartLeavesInventoryAlone ==
    [][ /\ last'.op \in {"add_item_to_cart", "remove_item_from_cart",
                         "apply_cart_discount", "cli_add", "cli_remove",
                         "show_total_price"} => inventory' = inventory
        /\ inventory' # inventory =>
              last'.op \in {"checkout", "checkout_cli", "create_order",
                            "update_inventory_item", "remove_inventory_item"}
      ]_vars

\* after an order took the stock of one item, the whole stock of the other
\* was put into the cart, and that stock is still there
C12_Witness ==
    /\ last.op = "add_item_to_cart"
    /\ last.out = "added"
    /\ orders # <<>>
    /\ \E i \in DOMAIN inventory :
          /\ InCart(shopping_cart, i)
          /\ CartQty(shopping_cart, i) = InitStock
          /\ inventory[i] = InitStock

(***************************************************************************)
(* C13.  remove_furniture(item_id, q) changes nothing when item_id is not  *)
(* in the cart or q exceeds the quantity held; otherwise it lowers the     *)
(* held quantity by q, deletes the entry when it reaches zero, and lowers  *)
(* the total by price * q.                                                 *)
(* Stated for every call that can be made in a reachable state.  It fails  *)
(* in main.py served as API, where the cart can hold an entry whose item   *)
(* the inventory has no catalog entry for: the call then raises KeyError   *)
(* and removes nothing.                                                    *)
(***************************************************************************)
C13_RemoveLowersOrRefuses ==
    \A i \in ItemIds, q \in Quantities :
        LET c == shopping_cart
            r == remove_furniture(c, inv_catalog, i, q)
        IN  IF ~InCart(c, i) \/ q > CartQty(c, i)
            THEN r.cart = c
            ELSE /\ InCart(r.cart, i) = (CartQty(c, i) - q # 0)
                 /\ InCart(r.cart, i) => CartQty(r.cart, i) = CartQty(c, i) - q
                 /\ \A j \in ItemIds \ {i} :
                       /\ InCart(r.cart, j) = InCart(c, j)
                       /\ CartQty(r.cart, j) = CartQty(c, j)
                 /\ r.cart.total = c.total - catalog[i] * q

(***************************************************************************)
(* C14.  In every state reachable through UserOrderDictionary.update and   *)
(* clear_user_orders, the order list the dictionary holds for a username   *)
(* is the same sequence as that user's own order history: the two copies   *)
(* never diverge.                                                          *)
(* update writes both; clear_user_orders empties the dictionary's list and *)
(* leaves the user's _order_hist as it is.                                 *)
(***************************************************************************)
C14_DictionaryEqualsHistory ==
    mode = "lib" =>
       \A u \in Usernames : StoredOrders(user_orders, u) = order_hist[u]

(***************************************************************************)
(* C15.  UserOrderDictionary.update(order) appends order at the end of the *)
(* list of order.user.username only: lists of other usernames are          *)
(* unchanged, earlier orders keep their relative order, and nothing is     *)
(* deduplicated (updating with the same order twice stores it twice).      *)
(***************************************************************************)
C15_UpdateAppendsToOneList ==
    [][ last'.op = "update" =>
          LET u == last'.a
              before == StoredOrders(user_orders, u)
          IN  /\ u \in DOMAIN user_orders'
              /\ Len(user_orders'[u]) = Len(before) + 1
              /\ SubSeq(user_orders'[u], 1, Len(before)) = before
              /\ Last(user_orders'[u]).username = u
              /\ Last(user_orders'[u]) = Last(order_hist'[u])
              /\ DOMAIN user_orders' = DOMAIN user_orders \cup {u}
              /\ \A n \in DOMAIN user_orders \ {u} :
                    user_orders'[n] = user_orders[n] ]_vars

\* the same order was pushed twice and is stored twice
C15_Witness ==
    /\ last.op = "update"
    /\ last.a \in DOMAIN user_orders
    /\ Len(user_orders[last.a]) = 2
    /\ user_orders[last.a][1] = user_orders[last.a][2]

(***************************************************************************)
(* C16.  remove_item(id) deletes the inventory entry instead of zeroing    *)
(* it: afterwards id is not a key of the inventory and get_quantity(id)    *)
(* returns 0, as it does for any id never added; remove_item on an absent  *)
(* id changes nothing and raises no error.                                 *)
(***************************************************************************)
C16_RemoveItemDeletes ==
    [][ last'.op = "remove_item" =>
          LET id == last'.a.id
          IN  /\ last'.out = "ok"
              /\ id \notin DOMAIN inventory'
              /\ get_quantity(inventory', id) = 0
              /\ DOMAIN inventory' = DOMAIN inventory \ {id}
              /\ \A j \in DOMAIN inventory' : inventory'[j] = inventory[j]
              /\ id \notin DOMAIN inventory => inventory' = inventory ]_vars

\* an item was removed while the other one is in stock: its key is gone
C16_Witness ==
    /\ last.op = "remove_item"
    /\ last.a.id \notin DOMAIN inventory
    /\ \E j \in DOMAIN inventory : inventory[j] > 0

(***************************************************************************)
(* C17.  update_quantity(id, q) is an absolute overwrite with no lower     *)
(* bound: for an id present in the inventory the stored quantity becomes   *)
(* exactly q for any integer q, negative included, whatever the previous   *)
(* value; for an id absent from the inventory it changes nothing and       *)
(* creates no entry.                                                       *)
(***************************************************************************)
C17_UpdateQuantityOverwrites ==
    [][ last'.op = "update_quantity" =>
          LET id == last'.a.id
              q == last'.a.q
          IN  /\ DOMAIN inventory' = DOMAIN inventory
              /\ \A j \in DOMAIN inventory \ {id} : inventory'[j] = inventory[j]
              /\ id \in DOMAIN inventory =>
                    inventory'[id] = q /\ get_quantity(inventory', id) = q
              /\ id \notin DOMAIN inventory => inventory' = inventory ]_vars

\* a quantity was overwritten with -1
C17_Witness ==
    /\ last.op = "update_quantity"
    /\ last.a.q = 0 - 1
    /\ last.a.id \in DOMAIN inventory
    /\ inventory[last.a.id] = 0 - 1

(***************************************************************************)
(* C18.  search_items returns exactly the catalog items that are currently *)
(* a key of the inventory quantity map and that pass every given filter    *)
(* (title contains name case-insensitively, subtype name equals category   *)
(* case-insensitively, min_price <= price <= max_price inclusive); an item *)
(* removed from the inventory is never returned even though it is still in *)
(* the catalog, and an item with quantity 0 still is.                      *)
(* A filter is given when its argument is not None.  The code tests the    *)
(* arguments for truth, so max_price = 0 and category = "" filter nothing. *)
(***************************************************************************)
C18_SearchReturnsExactlyTheMatches ==
    [][ last'.op = "search_items" =>
          LET f == last'.a
              cat == get_catalog(inv_catalog)
              found == last'.resp
              matches ==
                 {id \in DOMAIN cat :
                    /\ id \in DOMAIN inventory
                    /\ f.name # None =>
                          Contains(lower(f.name[1]), lower(titles[id]))
                    /\ f.category # None =>
                          lower(f.category[1]) = lower(class_names[id])
                    /\ f.min_price # None => f.min_price[1] <= cat[id]
                    /\ f.max_price # None => cat[id] <= f.max_price[1]}
          IN  /\ {found[k] : k \in 1..Len(found)} = matches
              /\ Len(found) = Cardinality(matches) ]_vars

(***************************************************************************)
(* C19.  get_catalog returns a copy of the id -> StoreItem mapping:        *)
(* adding, replacing or deleting keys in the returned mapping never        *)
(* changes the catalog that the inventory, search_items and the carts      *)
(* subsequently see.                                                       *)
(***************************************************************************)
C19_CatalogCopyIsDetached ==
    [][ last'.op \in {"view_set", "view_del"} =>
          /\ inv_catalog' = inv_catalog
          /\ get_catalog(inv_catalog') = get_catalog(inv_catalog)
          /\ search_items(inventory', inv_catalog', None, None, None, None)
                = search_items(inventory, inv_catalog, None, None, None, None)
          /\ \A i \in ItemIds :
                add_furniture(NewCart, inventory', inv_catalog', i, 1)
                   = add_furniture(NewCart, inventory, inv_catalog, i, 1) ]_vars

\* a caller deleted every key of the mapping it was given, and the
\* inventory's catalog still has every item
C19_Witness ==
    /\ last.op = "view_del"
    /\ catalog_view.fetched
    /\ catalog_view.map = <<>>
    /\ get_catalog(inv_catalog) = catalog

(***************************************************************************)
(* C20.  is_logged becomes true only through login(email, password) with   *)
(* the user's own email and correct password; while is_logged is false     *)
(* manage_profile changes no profile field and view_order_history returns  *)
(* no orders.                                                              *)
(***************************************************************************)
C20_OnlyLoginUnlocksTheUser ==
    [][ /\ (~user_fields.is_logged /\ user_fields'.is_logged) =>
              /\ last'.op = "login"
              /\ last'.a.email = user_fields.email
              /\ last'.a.password = user_fields.password
        /\ (~user_fields.is_logged /\ last'.op = "manage_profile") =>
              user_fields' = user_fields
        /\ (~user_fields.is_logged /\ last'.op = "view_order_history") =>
              /\ last'.resp.type = "str"
              /\ last'.resp.list = <<>> ]_vars

\* a user who is not logged in and has an order in the history asked for
\* the history and got a message; the profile is as constructed
C20_Witness ==
    /\ mode = "user"
    /\ last.op = "view_order_history"
    /\ ~user_fields.is_logged
    /\ order_hist[user_fields.username] # <<>>
    /\ last.resp.type = "str"
    /\ user_fields.full_name = NewUser.full_name

(***************************************************************************)
(* C21.  Registration never overwrites an account: registering a username  *)
(* already in user_db is rejected and leaves the existing User unchanged,  *)
(* and CLI sign_up with an email already in user_accounts returns no user  *)
(* and leaves user_accounts and shopping_carts unchanged.                  *)
(***************************************************************************)
C21_RegistrationNeverOverwrites ==
    [][ /\ (last'.op = "register_user" /\ last'.a \in DOMAIN user_db) =>
             /\ last'.resp = "400"
             /\ user_db' = user_db
             /\ order_hist' = order_hist
             /\ user_orders' = user_orders
        /\ (last'.op = "sign_up" /\ last'.a \in DOMAIN user_accounts) =>
             /\ last'.resp = "None"
             /\ session'.user = NoUser
             /\ user_accounts' = user_accounts
             /\ shopping_carts' = shopping_carts
             /\ order_hist' = order_hist ]_vars

\* a username that already has an order was registered again and refused:
\* the order is still in the user's history
C21_Witness ==
    /\ last.op = "register_user"
    /\ last.out = "exists"
    /\ last.a \in DOMAIN user_db
    /\ order_hist[last.a] # <<>>

(***************************************************************************)
(* C22.  Each shopping cart is exclusively owned by one user: a cart       *)
(* operation or checkout performed for one user never changes another      *)
(* user's cart entries or total, and the Order produced by a checkout for  *)
(* user u contains only quantities that were placed in u's own cart.       *)
(* The cart of a user is the cart a checkout for that user reads: in the   *)
(* command-line store shopping_carts[user.email]; in the API the one       *)
(* module-level shopping_cart, whoever the username is.                    *)
(***************************************************************************)
C22_CartsAreExclusive ==
    [][ /\ (last'.op = "checkout" /\ last'.out = "ok") =>
             \A u \in DOMAIN user_db \ {last'.a} :
                shopping_cart' = shopping_cart
        /\ last'.op \in {"cli_add", "cli_remove", "checkout_cli"} =>
             \A e \in DOMAIN shopping_carts \ {session.user} :
                shopping_carts'[e] = shopping_carts[e] ]_vars

(***************************************************************************)
(* C23.  When the validation pass and the deduction pass of checkout_cli   *)
(* are separate steps that can interleave, two checkouts of different      *)
(* users' carts that each passed validation for the same item can both     *)
(* deduct, so more units are checked out than were in stock and the        *)
(* inventory quantity goes below 0; when each checkout runs as one atomic  *)
(* step this state is unreachable.                                         *)
(* A quantity goes below 0 only by a deduction that completes a checkout   *)
(* validated before another user's deduction of the same item.             *)
(***************************************************************************)
C23_OnlyInterleavingOverdraws ==
    [][ (\E i \in ItemIds : inventory'[i] < 0 /\ inventory[i] >= 0) =>
          /\ mode = "cli_threads"
          /\ last'.op = "checkout_cli"
          /\ last'.a \in checking
          /\ ~cli_validate(shopping_carts[last'.a].items, inventory) ]_vars

\* both users validated a cart holding the whole stock of item 1, both
\* deducted, and the quantity of item 1 is below 0
C23_Witness ==
    /\ mode = "cli_threads"
    /\ inventory[1] < 0
    /\ checking = {}
    /\ \A e \in DOMAIN ThreadUsers :
          /\ order_hist[e] # <<>>
          /\ Last(order_hist[e]).items = <<1>>

(***************************************************************************)
(* C24.  Stock conservation: across any sequence of cart operations, API   *)
(* checkouts and create_order requests (successful or failed, with no      *)
(* direct add_item/update_quantity/remove_item), for every item the        *)
(* inventory quantity plus the total quantity of that item in all recorded *)
(* Orders stays equal to its initial stock; no unit leaves the inventory   *)
(* without appearing in an Order.                                          *)
(***************************************************************************)
C24_StockIsConserved ==
    mode \in {"api", "main_api"} =>
       \A i \in ItemIds :
          get_quantity(inventory, i) + OrderedQty(orders, i) = InitStock

(***************************************************************************)
(* C29.  A create_order request that is rejected (unknown user, item not   *)
(* in the catalog, or insufficient stock for any line, including a later   *)
(* line for an item id already listed earlier in the same request) leaves  *)
(* every inventory quantity unchanged and records no Order.                *)
(***************************************************************************)
C29_RejectedOrderChangesNothing ==
    [][ (last'.op = "create_order" /\ last'.resp # "200") =>
          /\ inventory' = inventory
          /\ orders' = orders
          /\ user_orders' = user_orders
          /\ order_hist' = order_hist ]_vars

(***************************************************************************)
(* C25.  Starting from non-negative stock, no sequence of cart operations, *)
(* atomic checkouts (API or CLI, any number of users' carts) and           *)
(* create_order requests makes any inventory quantity negative, even when  *)
(* several carts together hold more of an item than is in stock.           *)
(***************************************************************************)
C25_StockNeverNegative ==
    \A i \in DOMAIN inventory : inventory[i] >= 0

\* two command-line carts held the whole stock of item 1 each; one was
\* checked out, the other's checkout was refused, and the quantity is 0
C25_Witness ==
    /\ mode = "cli_locked"
    /\ last.op = "checkout_cli"
    /\ last.out = "no_stock"
    /\ inventory[1] >= 0
    /\ CartQty(shopping_carts[last.a], 1) > inventory[1]
    /\ \E e \in DOMAIN ThreadUsers \ {last.a} :
          order_hist[e] # <<>> /\ Last(order_hist[e]).items = <<1>>

(***************************************************************************)
(* C26.  The cart total is never negative, and is 0 whenever the cart has  *)
(* no entries, in every state reachable by add_furniture, remove_furniture *)
(* and apply_discount called with positive quantities and any percentage.  *)
(***************************************************************************)
C26_TotalNeverNegative ==
    /\ shopping_cart.total >= 0
    /\ shopping_cart.items = <<>> => shopping_cart.total = 0

(***************************************************************************)
(* C27.  Every entry of a cart has quantity >= 1 in every reachable state: *)
(* no sequence of add_furniture and remove_furniture calls with arbitrary  *)
(* integer quantities (zero and negative included, as the API request      *)
(* models allow) leaves an entry with quantity 0 or below.                 *)
(***************************************************************************)
C27_EntriesArePositive ==
    \A k \in 1..Len(shopping_cart.items) : shopping_cart.items[k].qty >= 1

(***************************************************************************)
(* C30.  add_furniture is all-or-nothing: whenever the call does not       *)
(* complete normally -- in particular when item_id is a key of the         *)
(* inventory quantity map but has no catalog entry to take a price from -- *)
(* the cart entries and the cart total are the same as before the call.    *)
(***************************************************************************)
C30_AddIsAllOrNothing ==
    [][ (last'.op = "add_item_to_cart" /\ last'.out = "KeyError") =>
          /\ shopping_cart'.items = shopping_cart.items
          /\ shopping_cart'.total = shopping_cart.total ]_vars

(***************************************************************************)
(* C28.  A checkout that fails (unknown user, empty cart or insufficient   *)
(* stock) leaves the cart entries and the cart total unchanged and records *)
(* no Order in the orders list, the UserOrderDictionary or the user's      *)
(* history, so the same cart can be checked out later.                     *)
(***************************************************************************)
C28_FailedCheckoutKeepsCart ==
    [][ /\ (last'.op = "checkout" /\ last'.resp # "200") =>
             /\ last'.out \in {"no_user", "empty_cart", "no_stock"}
             /\ shopping_cart'.items = shopping_cart.items
             /\ shopping_cart'.total = shopping_cart.total
             /\ UNCHANGED <<orders, user_orders, order_hist>>
        /\ (last'.op = "checkout_cli" /\ last'.out # "ok") =>
             /\ last'.out \in {"empty_cart", "no_stock"}
             /\ shopping_carts' = shopping_carts
             /\ session' = session
             /\ UNCHANGED <<orders, user_orders, order_hist>> ]_vars

\* a registered user's checkout was refused for lack of stock: the cart
\* still holds its entries and its total
C28_Witness ==
    /\ last.op = "checkout"
    /\ last.out = "no_stock"
    /\ last.a \in DOMAIN user_db
    /\ shopping_cart.items # <<>>
    /\ shopping_cart.total > 0
    /\ \E i \in ItemIds :
          CartQty(shopping_cart, i) > get_quantity(inventory, i)

=============================================================================
